---- MODULE Spec2Model ----
(***************************************************************************)
(* A model of JiraConnection (src/JiraConnection.py): the credential check *)
(* of _connect, and the four query methods, each of which wraps an HTTP    *)
(* call in a function redefined on every call and decorated with           *)
(* st.cache_data(ttl=ttl).                                                 *)
(*                                                                         *)
(* Python values are records: None is [py |-> "None"], an int is           *)
(* [py |-> "int", v |-> n], a list is [py |-> "list", v |-> <<...>>], a    *)
(* DataFrame is [py |-> "DataFrame", ...]; a JSON object is a record of    *)
(* its members.  The outcome of a call is [kind |-> "return", val |-> v]   *)
(* or [kind |-> "raise", exc |-> name].                                    *)
(***************************************************************************)
EXTENDS Integers, Sequences, FiniteSets, TLC

\* The clock runs from 0 to MaxTime; a call's ttl is 0 or MaxTTL seconds.
MaxTime == 2
MaxTTL == 2

VARIABLES
    secrets,    \* st.secrets: the secret store _connect falls back to
    instance,   \* per connection: the session _connect returned, or NoSession
    remoteUp,   \* whether the remote answers with success statuses
    now,        \* the clock the cache reads
    caches,     \* st.cache_data's process-wide store: one cache per function
    last        \* the last call made: its arguments, requests and outcome

vars == <<secrets, instance, remoteUp, now, caches, last>>

----------------------------------------------------------------------------
\* Python values and outcomes

PyNone == [py |-> "None"]
PyInt(n) == [py |-> "int", v |-> n]
PyList(s) == [py |-> "list", v |-> s]
Return(v) == [kind |-> "return", val |-> v]
Raise(e) == [kind |-> "raise", exc |-> e]

Range(s) == {s[i] : i \in 1..Len(s)}

----------------------------------------------------------------------------
\* Connections and credentials

\* The application constructs one connection, "jira".
Conns == {"jira"}

\* self.base_url, set by the constructor
base_url == [jira |-> "https://sam1120.atlassian.net"]

NoSession == [auth |-> <<>>]

CredFields == {"username", "password"}
CredStrings == {"", "user@email.com"}

\* A credentials mapping: any subset of the two fields, each empty or not.
CredDicts == UNION {[D -> CredStrings] : D \in SUBSET CredFields}

\* The keyword arguments of _connect: with or without "credentials".
ConnectKwargs ==
    {[given |-> FALSE]} \cup {[given |-> TRUE, credentials |-> d] : d \in CredDicts}

\* The secret store: with or without a "credentials" section.
SecretStores ==
    {[present |-> FALSE]} \cup {[present |-> TRUE, credentials |-> d] : d \in CredDicts}

ValidSecrets ==
    [present |-> TRUE,
     credentials |-> [f \in CredFields |-> "user@email.com"]]

\* Mutant: every string counts as given.
TruthyAny(s) == TRUE

Truthy(s) == s # ""

\* The body of _connect once `credentials` is bound: both fields are indexed
\* before the check, so a missing field is a KeyError.
ConnectWith(credentials) ==
    IF "username" \notin DOMAIN credentials THEN Raise("KeyError")
    ELSE IF "password" \notin DOMAIN credentials THEN Raise("KeyError")
    ELSE LET username == credentials["username"]
             password == credentials["password"]
         IN IF DOMAIN credentials # {} /\ Truthy(username) /\ Truthy(password)
            THEN Return([auth |-> <<username, password>>])
            ELSE Raise("ValueError")

_connect(kwargs, store) ==
    IF kwargs.given THEN ConnectWith(kwargs.credentials)
    ELSE IF ~store.present THEN Raise("KeyError")
    ELSE ConnectWith(store.credentials)

\* Constructing the connection c with the keyword arguments kwargs.
Connect(c, kwargs) ==
    LET r == _connect(kwargs, secrets)
    IN /\ instance[c] = NoSession
       /\ instance' = IF r.kind = "return" THEN [instance EXCEPT ![c] = r.val]
                      ELSE instance
       /\ last' = [op |-> "_connect", conn |-> c, args |-> kwargs, out |-> r]
       /\ UNCHANGED <<secrets, remoteUp, now, caches>>

NoCall == [op |-> "none"]

----------------------------------------------------------------------------
\* The remote REST API (what session.get / session.post answer)

RemoteIssues == <<"TEST-1", "TEST-2", "TEST-3">>

JsonNull == [null |-> TRUE]

StatusName(id) ==
    CASE id = "TEST-1" -> "Done"
      [] id = "TEST-2" -> "In Progress"
      [] OTHER -> "To Do"

Assignee(id) ==
    IF id = "TEST-3" THEN JsonNull ELSE [displayName |-> "sam"]

\* All the fields of an issue; a search returns the requested ones.
IssueFields(id) ==
    [summary |-> "summary of " \o id,
     status |-> [name |-> StatusName(id)],
     assignee |-> Assignee(id)]

ExpandOf(params) == IF params = PyNone THEN "" ELSE params.expand

\* Every object the remote returns carries rev, the revision of the remote's
\* data when it answered: the data change as time passes.
IssueJson(host, id, expand, fields) ==
    [key |-> id,
     self |-> host \o "/rest/api/3/issue/" \o id,
     expand |-> expand,
     rev |-> now,
     fields |-> fields]

ProjectsJson(host, expand) ==
    PyList(<<[key |-> "TEST",
              self |-> host \o "/rest/api/3/project/TEST",
              expand |-> expand,
              rev |-> now]>>)

Hosts == {base_url[c] : c \in Conns}

Ok(json) == [status |-> 200, json |-> json]
Failed(code) == [status |-> code]

\* The answer to GET url?params.
RespondGet(url, params) ==
    IF ~remoteUp THEN Failed(503)
    ELSE IF \E h \in Hosts : url = h \o "/rest/api/3/project"
    THEN LET h == CHOOSE h \in Hosts : url = h \o "/rest/api/3/project"
         IN Ok(ProjectsJson(h, ExpandOf(params)))
    ELSE IF \E h \in Hosts, id \in Range(RemoteIssues) :
                url = h \o "/rest/api/3/issue/" \o id
    THEN LET hi == CHOOSE hi \in Hosts \X Range(RemoteIssues) :
                       url = hi[1] \o "/rest/api/3/issue/" \o hi[2]
         IN Ok(IssueJson(hi[1], hi[2], ExpandOf(params), IssueFields(hi[2])))
    ELSE Failed(404)

Min(a, b) == IF a < b THEN a ELSE b

\* The issues a JQL text selects, in the order it asks for.
Matching(jql) ==
    IF jql = "created >= -30d order by created ASC" THEN RemoteIssues
    ELSE SubSeq(RemoteIssues, 1, 1)

KnownJql == {"created >= -30d order by created ASC", "status = Done"}

\* The answer to POST url with the search body: one page of the matching
\* issues, each with the requested fields, and the number of all matches.
RespondPost(url, body) ==
    IF ~remoteUp THEN Failed(503)
    ELSE IF \E h \in Hosts : url = h \o "/rest/api/3/search"
    THEN IF body.jql \notin KnownJql THEN Failed(400)
         ELSE LET h == CHOOSE h \in Hosts : url = h \o "/rest/api/3/search"
                  all == Matching(body.jql)
                  page == SubSeq(all, body.startAt + 1,
                                 Min(body.startAt + body.maxResults, Len(all)))
              IN Ok([startAt |-> body.startAt,
                     maxResults |-> body.maxResults,
                     total |-> Len(all),
                     issues |-> [i \in 1..Len(page) |->
                         IssueJson(h, page[i], body.expand,
                                   [f \in Range(body.fields) |-> IssueFields(page[i])[f]])]])
    ELSE Failed(404)

\* response.raise_for_status(): an HTTPError for a 4xx or 5xx status.
RaisesForStatus(resp) == resp.status >= 400

----------------------------------------------------------------------------
\* st.cache_data(ttl=ttl) around a function defined inside a method

Methods == {"query", "query_projects", "query_issue", "query_jql"}

NoCache == [made |-> FALSE]
EmptyData == [k \in {} |-> PyNone]

\* The cache of the decorated function: the functions a method defines on
\* successive calls share one cache (same module, qualified name and source)
\* as long as ttl is the same; a call with another ttl replaces it by an
\* empty one.
get_cache(m, ttl) ==
    IF caches[m].made /\ caches[m].ttl = ttl THEN caches[m]
    ELSE [made |-> TRUE, ttl |-> ttl, data |-> EmptyData]

\* Mutant: an entry still answers at the instant it expires.
FreshInclusive(cache, key) ==
    key \in DOMAIN cache.data /\ now <= cache.data[key].expires

\* An entry answers a lookup until its ttl has elapsed.
Fresh(cache, key) ==
    key \in DOMAIN cache.data /\ now < cache.data[key].expires

\* Mutant: storing keeps no other entry.
write_result_alone(cache, key, value) ==
    [cache EXCEPT !.data =
        [k \in {key} |-> [value |-> value, expires |-> now + cache.ttl]]]

\* Storing drops the expired entries and sets the key's.
write_result(cache, key, value) ==
    LET live == {k \in DOMAIN cache.data : now < cache.data[k].expires}
    IN [cache EXCEPT !.data =
           [k \in live \cup {key} |->
               IF k = key THEN [value |-> value, expires |-> now + cache.ttl]
               ELSE cache.data[k]]]

\* Mutant: a None result is not stored.
cache_data_skip_none(m, ttl, key, computed) ==
    LET cache == get_cache(m, ttl)
    IN IF Fresh(cache, key)
       THEN [hit |-> TRUE, expired |-> FALSE,
             out |-> Return(cache.data[key].value), cache |-> cache,
             stored |-> cache.data[key].expires - ttl]
       ELSE IF computed.kind = "return" /\ computed.val # PyNone
       THEN [hit |-> FALSE, expired |-> key \in DOMAIN cache.data, out |-> computed,
             cache |-> write_result(cache, key, computed.val), stored |-> now]
       ELSE [hit |-> FALSE, expired |-> key \in DOMAIN cache.data, out |-> computed,
             cache |-> cache, stored |-> now]

\* A call of the decorated function: key is the hash of the arguments that
\* are passed to it (nothing the function closes over; the calls modelled
\* pass no further keyword arguments), computed the
\* outcome of its body.  The result tells whether the lookup hit, whether it
\* found an expired entry, the outcome, the cache afterwards and when the
\* value was stored.
cache_data(m, ttl, key, computed) ==
    LET cache == get_cache(m, ttl)
    IN IF Fresh(cache, key)
       THEN [hit |-> TRUE, expired |-> FALSE,
             out |-> Return(cache.data[key].value), cache |-> cache,
             stored |-> cache.data[key].expires - ttl]
       ELSE IF computed.kind = "return"
       THEN [hit |-> FALSE, expired |-> key \in DOMAIN cache.data, out |-> computed,
             cache |-> write_result(cache, key, computed.val), stored |-> now]
       ELSE [hit |-> FALSE, expired |-> key \in DOMAIN cache.data, out |-> computed,
             cache |-> cache, stored |-> now]

----------------------------------------------------------------------------
\* The GET methods

TTLs == {0, MaxTTL}
Params == {PyNone, [expand |-> "names"]}
Endpoints == {"/rest/api/3/project", "/rest/api/3/issue/TEST-1"}
IssueIds == {"TEST-1", "TEST-3", "TEST-404"}

GetRequest(c, url, params) ==
    [verb |-> "GET", url |-> url, params |-> params, auth |-> instance[c].auth]

\* The record of a call that went through a decorated function: the requests
\* it sent and their responses (none on a cache hit), when the value it got
\* was stored, and its outcome.
CallRecord(op, c, args, ttl, req, resp, r, out) ==
    [op |-> op, conn |-> c, args |-> args, ttl |-> ttl, at |-> now,
     called |-> TRUE, hit |-> r.hit, expired |-> r.expired, stored |-> r.stored,
     reqs |-> IF r.hit THEN <<>> ELSE <<req>>,
     resps |-> IF r.hit THEN <<>> ELSE <<resp>>,
     out |-> out]

\* Calls of different methods use different caches; a run exercises the
\* cache of one method.
OnlyCache(m) == \A o \in Methods \ {m} : caches[o] = NoCache

\* Mutant: the error is swallowed, as query_issue does.
QueryBodySwallowed(resp) ==
    IF RaisesForStatus(resp) THEN Return(PyNone) ELSE Return(resp.json)

\* query._query: raise_for_status, then the JSON.
QueryBody(resp) ==
    IF RaisesForStatus(resp) THEN Raise("HTTPError") ELSE Return(resp.json)

query(c, endpoint, params, ttl) ==
    LET url == base_url[c] \o endpoint
        req == GetRequest(c, url, params)
        resp == RespondGet(url, params)
        key == [endpoint |-> endpoint, params |-> params]
        r == cache_data("query", ttl, key, QueryBody(resp))
    IN /\ instance[c] # NoSession
       /\ OnlyCache("query")
       /\ caches' = [caches EXCEPT !["query"] = r.cache]
       /\ last' = CallRecord("query", c, [endpoint |-> endpoint, params |-> params],
                             ttl, req, resp, r, r.out)
       /\ UNCHANGED <<secrets, instance, remoteUp, now>>

query_projects(c, params, ttl) ==
    LET url == base_url[c] \o "/rest/api/3/project"
        req == GetRequest(c, url, params)
        resp == RespondGet(url, params)
        key == [params |-> params]
        r == cache_data("query_projects", ttl, key, QueryBody(resp))
    IN /\ instance[c] # NoSession
       /\ OnlyCache("query_projects")
       /\ caches' = [caches EXCEPT !["query_projects"] = r.cache]
       /\ last' = CallRecord("query_projects", c, [params |-> params],
                             ttl, req, resp, r, r.out)
       /\ UNCHANGED <<secrets, instance, remoteUp, now>>

\* Mutant: the error propagates, as in query.
IssueBodyPropagates(resp) ==
    IF RaisesForStatus(resp) THEN Raise("HTTPError") ELSE Return(resp.json)

\* query_issue._query: an HTTPError becomes None.
IssueBody(resp) ==
    IF RaisesForStatus(resp) THEN Return(PyNone) ELSE Return(resp.json)

query_issue(c, issue_id, params, ttl) ==
    LET url == base_url[c] \o "/rest/api/3/issue/" \o issue_id
        req == GetRequest(c, url, params)
        resp == RespondGet(url, params)
        key == [params |-> params]
        r == cache_data("query_issue", ttl, key, IssueBody(resp))
    IN /\ instance[c] # NoSession
       /\ OnlyCache("query_issue")
       /\ caches' = [caches EXCEPT !["query_issue"] = r.cache]
       /\ last' = CallRecord("query_issue", c,
                             [issue_id |-> issue_id, params |-> params],
                             ttl, req, resp, r, r.out)
       /\ UNCHANGED <<secrets, instance, remoteUp, now>>

----------------------------------------------------------------------------
\* query_jql

Jqls == {"", "created >= -30d order by created ASC", "status = Done"}

\* The expand, fields, max_results and start_at a call is made with: the
\* defaults of the signature, and a second page with the assignee.
Selectors ==
    {[expand |-> <<"changelog">>, fields |-> <<"summary", "status">>,
      max_results |-> 10, start_at |-> 0],
     [expand |-> <<>>, fields |-> <<"summary", "status", "assignee">>,
      max_results |-> 2, start_at |-> 1]}

ReturnTypes == {"count", "json", "dataframe", "xml"}

\* Members of an issue's fields whose value is an object (or null).
ObjectFields == {"status", "assignee"}

\* pd.json_normalize on one record: nested objects become dotted columns.
FlatPaths(issue) ==
    {<<m>> : m \in DOMAIN issue \ {"fields"}}
    \cup UNION {IF f \in ObjectFields /\ issue.fields[f] # JsonNull
                THEN {<<"fields", f, k>> : k \in DOMAIN issue.fields[f]}
                ELSE {<<"fields", f>>} : f \in DOMAIN issue.fields}

ColumnName(path) ==
    IF Len(path) = 1 THEN path[1]
    ELSE IF Len(path) = 2 THEN path[1] \o "." \o path[2]
    ELSE path[1] \o "." \o path[2] \o "." \o path[3]

CellValue(issue, path) ==
    IF Len(path) = 1 THEN issue[path[1]]
    ELSE IF Len(path) = 2
    THEN IF path[2] \in ObjectFields THEN "None" ELSE issue.fields[path[2]]
    ELSE issue.fields[path[2]][path[3]]

FlatRow(issue) ==
    LET paths == FlatPaths(issue)
    IN [n \in {ColumnName(p) : p \in paths} |->
           CellValue(issue, CHOOSE p \in paths : ColumnName(p) = n)]

\* pd.json_normalize(issues): one row per record, in order, over the union
\* of the columns; a column a record lacks holds NaN.
json_normalize(issues) ==
    LET rows == [i \in 1..Len(issues) |-> FlatRow(issues[i])]
        columns == UNION {DOMAIN rows[i] : i \in 1..Len(rows)}
    IN [py |-> "DataFrame",
        columns |-> columns,
        rows |-> [i \in 1..Len(rows) |->
                    [n \in columns |-> IF n \in DOMAIN rows[i] THEN rows[i][n] ELSE "NaN"]]]

\* json.dumps of the search body (the remote reads the same members back).
SearchBody(jql_query, sel) ==
    [expand |-> sel.expand,
     fields |-> sel.fields,
     fieldsByKeys |-> FALSE,
     jql |-> jql_query,
     maxResults |-> sel.max_results,
     startAt |-> sel.start_at]

PostRequest(c, url, data) ==
    [verb |-> "POST", url |-> url, data |-> data,
     headers |-> [ContentType |-> "application/json"], auth |-> instance[c].auth]

\* query_jql._query: an HTTPError becomes an error object.
JqlBody(resp) ==
    IF RaisesForStatus(resp)
    THEN Return([error |-> "HTTP Error: " \o ToString(resp.status)])
    ELSE Return(resp.json)

\* data[member]: a KeyError when the object has no such member.
Subscript(data, member) ==
    IF member \in DOMAIN data THEN Return(data[member]) ELSE Raise("KeyError")

\* Mutant: "count" counts the issues of the page.
ProjectPageCount(data, return_type) ==
    IF return_type = "count"
    THEN LET i == Subscript(data, "issues")
         IN IF i.kind = "raise" THEN i ELSE Return(PyInt(Len(i.val)))
    ELSE IF return_type = "json"
    THEN LET i == Subscript(data, "issues")
         IN IF i.kind = "raise" THEN i ELSE Return(PyList(i.val))
    ELSE LET i == Subscript(data, "issues")
         IN IF i.kind = "raise" THEN i ELSE Return(json_normalize(i.val))

\* What query_jql makes of the value its _query returned.
Project(data, return_type) ==
    IF return_type = "count"
    THEN LET t == Subscript(data, "total")
         IN IF t.kind = "raise" THEN t ELSE Return(PyInt(t.val))
    ELSE IF return_type = "json"
    THEN LET i == Subscript(data, "issues")
         IN IF i.kind = "raise" THEN i ELSE Return(PyList(i.val))
    ELSE LET i == Subscript(data, "issues")
         IN IF i.kind = "raise" THEN i ELSE Return(json_normalize(i.val))

\* The record of a call that returned or raised without calling _query.
EarlyRecord(op, c, args, ttl, out) ==
    [op |-> op, conn |-> c, args |-> args, ttl |-> ttl, at |-> now,
     called |-> FALSE, hit |-> FALSE, expired |-> FALSE, stored |-> now,
     reqs |-> <<>>, resps |-> <<>>, out |-> out]

query_jql(c, jql_query, ttl, sel, return_type) ==
    LET url == base_url[c] \o "/rest/api/3/search"
        body == SearchBody(jql_query, sel)
        req == PostRequest(c, url, body)
        resp == RespondPost(url, body)
        key == [jql_query |-> jql_query]
        args == [jql_query |-> jql_query, sel |-> sel, return_type |-> return_type]
        r == cache_data("query_jql", ttl, key, JqlBody(resp))
    IN /\ instance[c] # NoSession
       /\ OnlyCache("query_jql")
       /\ IF ~Truthy(jql_query)
          THEN /\ last' = EarlyRecord("query_jql", c, args, ttl, Raise("ValueError"))
               /\ caches' = caches
          ELSE IF return_type \in {"count", "json", "dataframe"}
          THEN /\ caches' = [caches EXCEPT !["query_jql"] = r.cache]
               /\ last' = CallRecord("query_jql", c, args, ttl, req, resp, r,
                                     Project(r.out.val, return_type))
          ELSE /\ last' = EarlyRecord("query_jql", c, args, ttl,
                                      Return([error |-> "Invalid return_type"]))
               /\ caches' = caches
       /\ UNCHANGED <<secrets, instance, remoteUp, now>>

----------------------------------------------------------------------------
\* Time and the remote

Tick ==
    /\ now < MaxTime
    /\ now' = now + 1
    /\ UNCHANGED <<secrets, instance, remoteUp, caches, last>>

RemoteFlip ==
    /\ remoteUp' = ~remoteUp
    /\ UNCHANGED <<secrets, instance, now, caches, last>>

Connected == [auth |-> <<"user@email.com", "user@email.com">>]

Init ==
    /\ secrets = ValidSecrets
    /\ instance = [c \in Conns |-> Connected]
    /\ remoteUp \in BOOLEAN
    /\ now = 0
    /\ caches = [m \in Methods |-> NoCache]
    /\ last = NoCall

Next ==
    \/ \E c \in Conns, e \in Endpoints, p \in Params, t \in TTLs : query(c, e, p, t)
    \/ \E c \in Conns, p \in Params, t \in TTLs : query_projects(c, p, t)
    \/ \E c \in Conns, i \in IssueIds, p \in Params, t \in TTLs : query_issue(c, i, p, t)
    \/ \E c \in Conns, q \in Jqls, t \in TTLs, s \in Selectors, rt \in ReturnTypes :
           query_jql(c, q, t, s, rt)
    \/ Tick
    \/ RemoteFlip

Spec == Init /\ [][Next]_vars

InitConnect ==
    /\ secrets \in SecretStores
    /\ instance = [c \in Conns |-> NoSession]
    /\ remoteUp = TRUE
    /\ now = 0
    /\ caches = [m \in Methods |-> NoCache]
    /\ last = NoCall

NextConnect == \E c \in Conns, kwargs \in ConnectKwargs : Connect(c, kwargs)

SpecConnect == InitConnect /\ [][NextConnect]_vars

----------------------------------------------------------------------------
\* Properties

\* A step that is a call of a query method: last' is its record.
CallStep == now' = now /\ remoteUp' = remoteUp /\ vars' # vars

SameCall(a, b) ==
    a.op = b.op /\ a.conn = b.conn /\ a.args = b.args /\ a.ttl = b.ttl

HttpFailed(call) == call.reqs # <<>> /\ call.resps[1].status >= 400
HttpSucceeded(call) == call.reqs # <<>> /\ call.resps[1].status < 400

\* The key the decorated function of a call is looked up by.
KeyOf(call) ==
    IF call.op = "query" THEN call.args
    ELSE IF call.op = "query_jql" THEN [jql_query |-> call.args.jql_query]
    ELSE [params |-> call.args.params]

\* The credentials _connect reads: the argument, else the secret store's.
GivenCredentials(call) ==
    IF call.args.given THEN call.args.credentials ELSE secrets.credentials

Populated(cr, f) == f \in DOMAIN cr /\ cr[f] # ""

\* C1 (as claimed): _connect with an empty or missing username or password
\* fails with ValueError and yields no session; with both non-empty it returns
\* a session whose auth pair is (username, password); from the argument or
\* from the secret store alike.
C1_CredentialError ==
    (last.op = "_connect" /\ (last.args.given \/ secrets.present)) =>
        LET cr == GivenCredentials(last)
        IN IF Populated(cr, "username") /\ Populated(cr, "password")
           THEN /\ last.out = Return([auth |-> <<cr["username"], cr["password"]>>])
                /\ instance[last.conn] = last.out.val
           ELSE /\ last.out = Raise("ValueError")
                /\ instance[last.conn] = NoSession

C3_IssueNotFoundIsNone ==
    last.op = "query_issue" =>
        /\ last.out.kind = "return"
        /\ HttpFailed(last) => last.out.val = PyNone

\* C3 witness: the lookup of an issue the remote does not have returned None.
C3_Witness ==
    /\ last.op = "query_issue" /\ last.args.issue_id = "TEST-404"
    /\ HttpFailed(last) /\ last.resps[1].status = 404
    /\ last.out = Return(PyNone)

\* C4: query_jql with an empty query string raises ValueError, sends no
\* request and leaves the caches as they were, whatever the other arguments.
C4_EmptyJqlRejected ==
    [][(CallStep /\ last'.op = "query_jql" /\ last'.args.jql_query = "") =>
        /\ last'.out = Raise("ValueError")
        /\ last'.reqs = <<>>
        /\ caches' = caches]_vars

\* C4 witness: an empty query was rejected while the cache held an entry.
C4_Witness ==
    /\ last.op = "query_jql" /\ last.args.jql_query = ""
    /\ last.out = Raise("ValueError")
    /\ caches["query_jql"].made /\ DOMAIN caches["query_jql"].data # {}

\* C5 (as claimed): query_jql with a non-empty query and a valid return_type
\* never raises when the search fails with an HTTP error: it returns an error
\* object describing the failure.
C5_JqlErrorObject ==
    (/\ last.op = "query_jql" /\ HttpFailed(last)
     /\ last.args.return_type \in {"count", "json", "dataframe"}) =>
        /\ last.out.kind = "return"
        /\ "error" \in DOMAIN last.out.val

\* C6: when the search succeeds with payload P, "count" returns P.total,
\* "json" returns P.issues, "dataframe" returns one row per issue in order;
\* with a non-empty query, any other return_type returns the error object
\* {"error": "Invalid return_type"}.
C6_ReturnTypeProjection ==
    last.op = "query_jql" =>
        /\ HttpSucceeded(last) =>
            LET P == last.resps[1].json
                rt == last.args.return_type
            IN /\ rt = "count" => last.out = Return(PyInt(P.total))
               /\ rt = "json" => last.out = Return(PyList(P.issues))
               /\ rt = "dataframe" =>
                    /\ last.out.kind = "return"
                    /\ last.out.val.py = "DataFrame"
                    /\ Len(last.out.val.rows) = Len(P.issues)
                    /\ \A i \in 1..Len(P.issues) :
                          /\ last.out.val.rows[i]["key"] = P.issues[i].key
                          /\ last.out.val.rows[i]["fields.summary"]
                               = P.issues[i].fields.summary
        /\ (/\ last.args.jql_query # ""
            /\ last.args.return_type \notin {"count", "json", "dataframe"})
           => last.out = Return([error |-> "Invalid return_type"])

\* C6 witness: a page of two of three matching issues came back as a table.
C6_Witness ==
    /\ last.op = "query_jql" /\ HttpSucceeded(last)
    /\ last.args.return_type = "dataframe"
    /\ last.resps[1].json.total = 3
    /\ last.out.kind = "return" /\ Len(last.out.val.rows) = 2

\* C7: query sends a GET to base_url + endpoint with the params; when the
\* response has an error status the call raises HTTPError, having sent
\* exactly one request, and returns nothing.
C7_QueryPropagatesHttpError ==
    last.op = "query" =>
        /\ \A i \in 1..Len(last.reqs) :
              /\ last.reqs[i].verb = "GET"
              /\ last.reqs[i].url = base_url[last.conn] \o last.args.endpoint
              /\ last.reqs[i].params = last.args.params
        /\ HttpFailed(last) => last.out = Raise("HTTPError")
        /\ last.out.kind = "raise" => Len(last.reqs) = 1

\* C7 witness: a query failed with HTTPError after one request.
C7_Witness ==
    /\ last.op = "query" /\ HttpFailed(last)
    /\ last.out = Raise("HTTPError") /\ Len(last.reqs) = 1

\* C8 (as claimed): a result is only returned to a call naming the request
\* that fetched it: query_issue returns None or the issue it was asked for,
\* and the issues query_jql returns were fetched with the call's fields,
\* expand, max_results and start_at.
C8_CacheKeyedByRequest ==
    /\ (last.op = "query_issue" /\ last.out.kind = "return" /\ last.out.val # PyNone)
       => /\ last.out.val.key = last.args.issue_id
          /\ last.out.val.self =
                base_url[last.conn] \o "/rest/api/3/issue/" \o last.args.issue_id
    /\ (/\ last.op = "query_jql" /\ last.args.return_type = "json"
        /\ last.out.kind = "return")
       => /\ Len(last.out.val.v) <= last.args.sel.max_results
          /\ \A i \in 1..Len(last.out.val.v) :
                /\ DOMAIN last.out.val.v[i].fields = Range(last.args.sel.fields)
                /\ last.out.val.v[i].expand = last.args.sel.expand

\* An entry of method m's cache that is unexpired after the step.
Unexpired(m, k) ==
    /\ caches[m].made
    /\ k \in DOMAIN caches[m].data
    /\ now' < caches[m].data[k].expires

Kept(m, k) ==
    /\ caches'[m].made
    /\ k \in DOMAIN caches'[m].data
    /\ caches'[m].data[k] = caches[m].data[k]

\* A call whose key has an entry in the cache of its ttl, expired by now.
ExpiredFor(call) ==
    /\ call.called
    /\ caches[call.op].made /\ caches[call.op].ttl = call.ttl
    /\ KeyOf(call) \in DOMAIN caches[call.op].data
    /\ now >= caches[call.op].data[KeyOf(call)].expires

\* After a call that fetched: it sent one request, and a value it got is
\* stored anew under its key.
Refetched(call) ==
    /\ Len(call.reqs) = 1 /\ ~call.hit /\ call.stored = now
    /\ (call.out.kind = "return" \/ call.op = "query_jql")
       => caches'[call.op].data[KeyOf(call)].expires = now + call.ttl

C10_ErrorsCachedAsymmetrically ==
    [][CallStep =>
        /\ (last'.op = "query_issue" /\ last'.ttl > 0 /\ HttpFailed(last'))
           => /\ last'.out = Return(PyNone)
              /\ caches'["query_issue"].made
              /\ KeyOf(last') \in DOMAIN caches'["query_issue"].data
              /\ caches'["query_issue"].data[KeyOf(last')]
                   = [value |-> PyNone, expires |-> now + last'.ttl]
        /\ (/\ last'.op = "query_issue" /\ last'.ttl > 0
            /\ caches["query_issue"].made
            /\ caches["query_issue"].ttl = last'.ttl
            /\ KeyOf(last') \in DOMAIN caches["query_issue"].data
            /\ caches["query_issue"].data[KeyOf(last')].value = PyNone
            /\ now < caches["query_issue"].data[KeyOf(last')].expires)
           => (last'.out = Return(PyNone) /\ last'.reqs = <<>>)
        /\ (last'.op = "query" /\ last'.out.kind = "raise")
           => ~(/\ KeyOf(last') \in DOMAIN caches'["query"].data
                /\ now < caches'["query"].data[KeyOf(last')].expires)
        /\ (/\ last.op = "query" /\ last.out.kind = "raise"
            /\ last'.op = "query" /\ last'.args = last.args)
           => last'.reqs # <<>>]_vars

\* C10 witness: a cached None was returned for an issue the remote has,
\* while the remote is up.
C10_Witness ==
    /\ last.op = "query_issue" /\ last.hit /\ last.reqs = <<>>
    /\ last.out = Return(PyNone) /\ last.at = now
    /\ remoteUp /\ last.args.issue_id = "TEST-1"

====
